---- MODULE Spec2Model ----
(***************************************************************************)
(* Paper lifecycle engine of CD_AI_back_end (app/api/v1/endpoints/papers.py *)
(* and the teacher review endpoints of users.py).                          *)
(*                                                                         *)
(* Every request runs on its own pymysql connection (autocommit off,       *)
(* database.py).  The store is MySQL/InnoDB at its default isolation       *)
(* level: the plain SELECTs of a handler read one snapshot taken at its    *)
(* first read, UPDATE/DELETE take the row lock and act on the latest       *)
(* committed row, and the writes of a transaction become visible together  *)
(* at commit.  A handler is therefore modelled in steps: Begin (parse the  *)
(* request, read, validate), ExecWrite (UPDATE / INSERT / DELETE on        *)
(* papers), ExecInsert (INSERT INTO papers_history), Commit; Fail is a     *)
(* pymysql.MySQLError in any of them, followed by the handler's rollback.  *)
(* A request that is rejected before its first write is answered in its    *)
(* Begin step.  The caller reads a response (Deliver) before anything else *)
(* is observed.                                                            *)
(*                                                                         *)
(* Statuses are written with the names of the specification:               *)
(*   Uploaded = "已上传", PendingReview = "待审阅", Reviewed = "已审阅",       *)
(*   Updated = "已更新", NeedsUpdate = "待更新", Final = "已定稿",             *)
(*   Passed = "已通过" (teacher_update_review only).                        *)
(* Strings that the code parses (version numbers) are sequences of         *)
(* one-character strings.  A nullable column is <<>> (NULL) or <<v>>.      *)
(***************************************************************************)
EXTENDS Integers, Sequences, FiniteSets, TLC

\* ------------------------------------------------------------------ bounds
\* papers ever created under Spec and SpecDeep
MaxPapers == 1

\* papers ever created under SpecMany
MaxManyPapers == 2

\* rows of papers_history, written or about to be, under Spec
MaxHist == 3

\* rows of papers_history, written or about to be, under SpecDeep
MaxDeep == 5

\* seconds that pass
MaxClock == 1

\* accepted calls in a row looked for when asking whether Final can be reached
MaxSteps == 3

\* ------------------------------------------------------- version comparator
Digits == {"0", "1", "2", "3", "4", "5", "6", "7", "8", "9"}

DigitVal(c) ==
    CASE c = "0" -> 0 [] c = "1" -> 1 [] c = "2" -> 2 [] c = "3" -> 3
      [] c = "4" -> 4 [] c = "5" -> 5 [] c = "6" -> 6 [] c = "7" -> 7
      [] c = "8" -> 8 [] c = "9" -> 9

RECURSIVE LStripChars(_, _)
LStripChars(s, cs) ==
    IF s # <<>> /\ Head(s) \in cs THEN LStripChars(Tail(s), cs) ELSE s

RECURSIVE RStripChars(_, _)
RStripChars(s, cs) ==
    IF s # <<>> /\ s[Len(s)] \in cs
    THEN RStripChars(SubSeq(s, 1, Len(s) - 1), cs) ELSE s

Strip(s) == RStripChars(LStripChars(s, {" "}), {" "})

Lower(s) == [i \in 1..Len(s) |-> IF s[i] = "V" THEN "v" ELSE s[i]]

\* str.split('.'): the list of the pieces between the dots
RECURSIVE SplitDot(_, _, _)
SplitDot(s, cur, acc) ==
    IF s = <<>> THEN Append(acc, cur)
    ELSE IF Head(s) = "." THEN SplitDot(Tail(s), <<>>, Append(acc, cur))
    ELSE SplitDot(Tail(s), Append(cur, Head(s)), acc)

\* the digits of an int() literal: digits, single underscores between them
RECURSIVE DigitsOk(_, _)
DigitsOk(s, prevDigit) ==
    IF s = <<>> THEN prevDigit
    ELSE IF Head(s) \in Digits THEN DigitsOk(Tail(s), TRUE)
    ELSE IF Head(s) = "_" THEN prevDigit /\ DigitsOk(Tail(s), FALSE)
    ELSE FALSE

RECURSIVE DigitsValue(_, _)
DigitsValue(s, acc) ==
    IF s = <<>> THEN acc
    ELSE IF Head(s) = "_" THEN DigitsValue(Tail(s), acc)
    ELSE DigitsValue(Tail(s), 10 * acc + DigitVal(Head(s)))

\* int(s): <<n>> or <<>> when Python raises ValueError
PyInt(s) ==
    LET t == Strip(s)
        signed == t # <<>> /\ Head(t) \in {"+", "-"}
        body == IF signed THEN Tail(t) ELSE t
    IN  IF body = <<>> \/ ~DigitsOk(body, FALSE) THEN <<>>
        ELSE IF signed /\ Head(t) = "-" THEN << 0 - DigitsValue(body, 0) >>
        ELSE << DigitsValue(body, 0) >>

InvalidVersion == <<>>

\* papers.py _parse_version: <<major, minor>> or InvalidVersion (HTTP 400)
ParseVersion(version_str) ==
    LET version_clean == LStripChars(Lower(Strip(version_str)), {"v"})
        parts == SplitDot(version_clean, <<>>, <<>>)
    IN  IF Len(parts) # 2 THEN InvalidVersion
        ELSE LET major == PyInt(parts[1])
                 minor == PyInt(parts[2])
             IN  IF major = <<>> \/ minor = <<>> THEN InvalidVersion
                 ELSE IF major[1] < 0 \/ minor[1] < 0 THEN InvalidVersion
                 ELSE << major[1], minor[1] >>

\* an order that looks at the major number only
TupleLessMajorOnly(a, b) == a[1] < b[1]

\* Python's order on 2-tuples of ints
TupleLess(a, b) == a[1] < b[1] \/ (a[1] = b[1] /\ a[2] < b[2])

\* a version that equals the current one passes the comparison
TupleLessEqStrict(a, b) == TupleLess(a, b)

TupleLessEq(a, b) == a[1] < b[1] \/ (a[1] = b[1] /\ a[2] <= b[2])

\* ------------------------------------------------------------ data model
Null == <<>>

Some(v) == << v >>

Statuses == {"Uploaded", "PendingReview", "Reviewed", "Updated", "NeedsUpdate", "Final"}

\* the upload limit of upload_paper / update_paper, 100 * 1024 * 1024 bytes
MaxUploadSize == 104857600

Workers == {"w1", "w2"}

NoWorker == "none"

PaperIds == 1..(IF MaxPapers > MaxManyPapers THEN MaxPapers ELSE MaxManyPapers)

\* identities as _parse_current_user returns them: sub, username, roles
Anonymous == [sub |-> 0, username |-> "", roles |-> {}]

Student1 == [sub |-> 1, username |-> "stu1", roles |-> {"student"}]

Student1NoName == [sub |-> 1, username |-> "", roles |-> {"student"}]

Teacher2 == [sub |-> 2, username |-> "tea2", roles |-> {"teacher"}]

Staff3 == [sub |-> 3, username |-> "adm3", roles |-> {"teacher", "admin"}]

\* a caller whose roles claim is ["Admin"]
Admin4 == [sub |-> 4, username |-> "adm4", roles |-> {"Admin"}]

\* str(login_user_id)
Str(n) == CASE n = 0 -> "0" [] n = 1 -> "1" [] n = 2 -> "2" [] n = 3 -> "3"

\* current_user.get("username") or str(login_user_id)
OperatorName(user) == IF user.username # "" THEN user.username ELSE Str(user.sub)

\* version strings offered by callers
V10 == << "v", "1", ".", "0" >>

V11 == << "v", "1", ".", "1" >>

V12Upper == << "V", "1", ".", "2" >>

VBad == << "v", "1" >>

\* file.filename.lower().endswith(".docx")
IsDocx(filename) == filename \in {"thesis.docx", "DRAFT.DOCX"}

\* upload_paper_to_storage: "<timestamp>_<name>" under doc/essay
StorageKey(ts, filename) == [ts |-> ts, name |-> filename]

\* UPDATE ... SET: the named columns take the new values, the others stay
SetColumns(row, assignments) ==
    [c \in DOMAIN row |-> IF c \in DOMAIN assignments THEN assignments[c] ELSE row[c]]

\* a SELECT ... WHERE id = paper_id on a table state: <<row>> or <<>>
SelectPaper(table, paper_id) ==
    IF paper_id \in DOMAIN table THEN << table[paper_id] >> ELSE <<>>

\* ---------------------------------------------------------------- state
VARIABLES
    papers,     \* committed rows of table papers: paper id -> row
    nextId,     \* AUTO_INCREMENT counter of papers.id
    history,    \* committed rows of papers_history, in insertion order; the
                \* fields op and actor of a row name the call that wrote it
    clock,      \* datetime.now(), in seconds
    lock,       \* InnoDB row locks on papers: paper id -> worker or NoWorker
    pc,         \* per request worker: "idle", "write", "insert", "commit"
    req,        \* per request worker: the locals of the running handler
    accepted,   \* per paper: number of calls on it answered with success, of
                \* the endpoints of papers.py and of the teacher review endpoints
    resp        \* the response being sent, with its request, the step that
                \* produced it and the committed row it found; NoResp once read

vars == << papers, nextId, history, clock, lock, pc, req, accepted, resp >>

NoReq == [op |-> "None"]

NoResp == [op |-> "None"]

Init ==
    /\ papers = << >>
    /\ nextId = 1
    /\ history = << >>
    /\ clock = 0
    /\ lock = [p \in PaperIds |-> NoWorker]
    /\ pc = [w \in Workers |-> "idle"]
    /\ req = [w \in Workers |-> NoReq]
    /\ accepted = [p \in PaperIds |-> [lifecycle |-> 0, review |-> 0]]
    /\ resp = NoResp

OK == "OK"

\* the response to the request r, produced in the handler's step stage
Response(r, code, err, stage, pre) ==
    [op |-> r.op, paper_id |-> r.paper_id, code |-> code, err |-> err,
     user |-> r.user, arg |-> r.arg, snap |-> r.snap, stage |-> stage, pre |-> pre]

\* a request that ends in its first step (HTTPException before any write):
\* nothing but the response changes.  Such a request reads the committed rows
\* only, so it is taken while no other request is running.
Reject(w, request, code, err) ==
    /\ \A v \in Workers : pc[v] = "idle"
    /\ resp' = Response(request, code, err, "check", request.snap)
    /\ UNCHANGED << papers, nextId, history, clock, lock, pc, req, accepted >>

\* requests that may still write: each occupies one future papers_history row
InFlightWriters == {v \in Workers : pc[v] # "idle" /\ req[v].op # "delete_paper"}

\* the handler goes on to its first write statement
Proceed(w, request, limit) ==
    /\ request.op # "delete_paper" => Len(history) + Cardinality(InFlightWriters) < limit
    /\ pc' = [pc EXCEPT ![w] = "write"]
    /\ req' = [req EXCEPT ![w] = request]
    /\ UNCHANGED << papers, nextId, history, clock, lock, accepted, resp >>

\* --------------------------------------------------------------- inputs
\* The requests callers send: for every handler the requests it can accept
\* and a request for each of its rejections.
GoodFile == [filename |-> "thesis.docx", size |-> 1000]

NewFile == [filename |-> "DRAFT.DOCX", size |-> 2000]

BadFiles == {[filename |-> "notes.pdf", size |-> 1000],
             [filename |-> "thesis.docx", size |-> 0],
             [filename |-> "thesis.docx", size |-> MaxUploadSize + 1]}

UploadRequests ==
    {[user |-> Student1, owner_id |-> 1, teacher_id |-> t, file |-> GoodFile] : t \in {1, 2}}
    \cup {[user |-> Student1, owner_id |-> 1, teacher_id |-> 2, file |-> f] : f \in BadFiles}
    \cup {[user |-> u, owner_id |-> 1, teacher_id |-> 2, file |-> GoodFile] :
            u \in {Anonymous, Teacher2}}
    \cup {[user |-> Student1, owner_id |-> 0, teacher_id |-> 2, file |-> GoodFile],
          [user |-> Student1, owner_id |-> 1, teacher_id |-> 0, file |-> GoodFile]}

UpdateRequests ==
    {[user |-> Student1, version |-> v, file |-> NewFile] : v \in {V10, V11, V12Upper, VBad}}
    \cup {[user |-> Student1NoName, version |-> V11, file |-> NewFile]}
    \cup {[user |-> Student1, version |-> V11, file |-> f] : f \in BadFiles}
    \cup {[user |-> u, version |-> V11, file |-> NewFile] : u \in {Anonymous, Teacher2, Staff3}}
    \cup {[user |-> Teacher2, version |-> v, file |-> NewFile] : v \in {V10, VBad}}
    \cup {[user |-> Teacher2, version |-> V11, file |-> [filename |-> "notes.pdf", size |-> 1000]]}

\* the status parameter is a free string: the six statuses and one more
StatusRequests ==
    {[user |-> u, status |-> st] :
        u \in {Anonymous, Student1, Teacher2, Staff3}, st \in Statuses \cup {"Passed"}}

\* allowed_statuses of teacher_update_review
ReviewStatuses == {"Reviewed", "Passed", "NeedsUpdate"}

ReviewUpdateRequests ==
    {[user |-> Teacher2, status |-> "Reviewed", content |-> Some("better")],
     [user |-> Teacher2, status |-> "Passed", content |-> Null],
     [user |-> Teacher2, status |-> "NeedsUpdate", content |-> Some("redo")],
     [user |-> Teacher2, status |-> "Final", content |-> Null]}
    \cup {[user |-> u, status |-> "Reviewed", content |-> Null] :
            u \in {Anonymous, Student1, Staff3}}

\* the inputs of the specification Spec
Wide ==
    [upload |-> UploadRequests, update |-> UpdateRequests,
     users |-> {Anonymous, Student1, Teacher2, Staff3, Admin4},
     status |-> StatusRequests, contents |-> {"good"},
     review |-> ReviewUpdateRequests, papers |-> MaxPapers, limit |-> MaxHist]

\* the inputs of the specification SpecDeep: longer runs of fewer callers
Deep ==
    [upload |-> {[user |-> Student1, owner_id |-> 1, teacher_id |-> 2, file |-> GoodFile]},
     update |-> {[user |-> Student1, version |-> v, file |-> NewFile] : v \in {V11, V12Upper}},
     users |-> {Student1, Teacher2},
     status |-> {[user |-> u, status |-> st] : u \in {Student1, Teacher2}, st \in Statuses},
     contents |-> {"good"},
     review |-> {[user |-> Teacher2, status |-> "NeedsUpdate", content |-> Some("redo")]},
     papers |-> MaxPapers, limit |-> MaxDeep]

\* the inputs of the specification SpecMany: several papers of one owner
Many ==
    [upload |-> {[user |-> Student1, owner_id |-> 1, teacher_id |-> 2, file |-> GoodFile]},
     update |-> {[user |-> Student1, version |-> V11, file |-> NewFile]},
     users |-> {Student1, Teacher2, Staff3},
     status |-> {[user |-> Student1, status |-> "PendingReview"],
                 [user |-> Teacher2, status |-> "Final"]},
     contents |-> {"good"},
     review |-> {[user |-> Teacher2, status |-> "NeedsUpdate", content |-> Some("redo")]},
     papers |-> MaxManyPapers, limit |-> MaxHist]

\* ---------------------------------------------------------- upload_paper
\* the checks of upload_paper before it stores the file
UploadPaperCheck(user, owner_id, teacher_id, filename, size) ==
    IF owner_id <= 0 THEN << 400, "InputValidation" >>
    ELSE IF teacher_id <= 0 THEN << 400, "InputValidation" >>
    ELSE IF owner_id # user.sub THEN << 403, "Forbidden" >>
    ELSE IF ~IsDocx(filename) THEN << 400, "InputValidation" >>
    ELSE IF size > MaxUploadSize THEN << 400, "InputValidation" >>
    ELSE << 200, OK >>

\* an upload whose row starts in review
UploadPaperRowInReview(user, owner_id, teacher_id, oss_key, size, now) ==
    [owner_id |-> owner_id, teacher_id |-> teacher_id, latest_version |-> V10,
     size |-> size, status |-> "PendingReview", detail |-> Null, oss_key |-> oss_key,
     operated_by |-> Null, operated_time |-> Null,
     created_at |-> now, updated_at |-> now]

\* the row INSERTed INTO papers: operated_by and operated_time are not set
UploadPaperRow(user, owner_id, teacher_id, oss_key, size, now) ==
    [owner_id |-> owner_id, teacher_id |-> teacher_id, latest_version |-> V10,
     size |-> size, status |-> "Uploaded", detail |-> Null, oss_key |-> oss_key,
     operated_by |-> Null, operated_time |-> Null,
     created_at |-> now, updated_at |-> now]

UploadPaperHistory(user, oss_key, size, now) ==
    [paper_id |-> 0, version |-> V10, size |-> size, status |-> "Uploaded",
     detail |-> Null, oss_key |-> oss_key,
     operated_by |-> Some(OperatorName(user)), operated_time |-> Some(now),
     created_at |-> now, op |-> "upload_paper", actor |-> user.sub]

UploadPaperBegin(w, U) ==
    /\ pc[w] = "idle"
    /\ \E r \in U.upload :
        LET check == UploadPaperCheck(r.user, r.owner_id, r.teacher_id,
                                      r.file.filename, r.file.size)
            oss_key == StorageKey(clock, r.file.filename)
            request == [op |-> "upload_paper", user |-> r.user, paper_id |-> 0,
                        arg |-> << r.owner_id, r.teacher_id >>, snap |-> <<>>,
                        insert |-> UploadPaperRow(r.user, r.owner_id, r.teacher_id,
                                                  oss_key, r.file.size, clock),
                        hist |-> UploadPaperHistory(r.user, oss_key, r.file.size, clock)]
        IN  IF check[2] # OK
            THEN Reject(w, request, check[1], check[2])
            ELSE /\ nextId + Cardinality({v \in Workers :
                        pc[v] = "write" /\ req[v].op = "upload_paper"}) <= U.papers
                 /\ Proceed(w, request, U.limit)

\* ---------------------------------------------------------- update_paper
\* update_paper parsing and comparing the versions before it looks at the owner
UpdatePaperCheckVersionFirst(user, snap, filename, size, version) ==
    IF ~IsDocx(filename) THEN << 400, "InputValidation" >>
    ELSE IF size = 0 THEN << 400, "InputValidation" >>
    ELSE IF size > MaxUploadSize THEN << 400, "InputValidation" >>
    ELSE IF snap = <<>> THEN << 404, "NotFound" >>
    ELSE IF ParseVersion(snap[1].latest_version) = InvalidVersion
         THEN << 400, "InvalidVersionFormat" >>
    ELSE IF ParseVersion(version) = InvalidVersion THEN << 400, "InvalidVersionFormat" >>
    ELSE IF TupleLessEq(ParseVersion(version), ParseVersion(snap[1].latest_version))
         THEN << 400, "VersionNotIncreasing" >>
    ELSE IF snap[1].owner_id # user.sub THEN << 403, "Forbidden" >>
    ELSE << 200, OK >>

\* the checks of update_paper against the row it read
UpdatePaperCheck(user, snap, filename, size, version) ==
    IF ~IsDocx(filename) THEN << 400, "InputValidation" >>
    ELSE IF size = 0 THEN << 400, "InputValidation" >>
    ELSE IF size > MaxUploadSize THEN << 400, "InputValidation" >>
    ELSE IF snap = <<>> THEN << 404, "NotFound" >>
    ELSE IF snap[1].owner_id # user.sub THEN << 403, "Forbidden" >>
    ELSE IF ParseVersion(snap[1].latest_version) = InvalidVersion
         THEN << 400, "InvalidVersionFormat" >>
    ELSE IF ParseVersion(version) = InvalidVersion THEN << 400, "InvalidVersionFormat" >>
    ELSE IF TupleLessEq(ParseVersion(version), ParseVersion(snap[1].latest_version))
         THEN << 400, "VersionNotIncreasing" >>
    ELSE << 200, OK >>

\* the SET list of update_paper; operated_by is the bare username
UpdatePaperSet(user, version, oss_key, size, now) ==
    [latest_version |-> version, size |-> size, status |-> "Updated",
     oss_key |-> oss_key, updated_at |-> now,
     operated_by |-> Some(user.username), operated_time |-> Some(now)]

UpdatePaperHistory(user, paper_id, version, oss_key, size, now) ==
    [paper_id |-> paper_id, version |-> version, size |-> size, status |-> "Updated",
     detail |-> Null, oss_key |-> oss_key,
     operated_by |-> Some(OperatorName(user)), operated_time |-> Some(now),
     created_at |-> now, op |-> "update_paper", actor |-> user.sub]

UpdatePaperBegin(w, U) ==
    /\ pc[w] = "idle"
    /\ \E r \in U.update, paper_id \in 1..U.papers :
        LET snap == SelectPaper(papers, paper_id)
            check == UpdatePaperCheck(r.user, snap, r.file.filename, r.file.size, r.version)
            oss_key == StorageKey(clock, r.file.filename)
            request == [op |-> "update_paper", user |-> r.user, paper_id |-> paper_id,
                        arg |-> [version |-> r.version, file |-> r.file], snap |-> snap,
                        set |-> UpdatePaperSet(r.user, r.version, oss_key, r.file.size, clock),
                        hist |-> UpdatePaperHistory(r.user, paper_id, r.version, oss_key,
                                                    r.file.size, clock)]
        IN  IF check[2] # OK
            THEN Reject(w, request, check[1], check[2])
            ELSE Proceed(w, request, U.limit)

\* ---------------------------------------------- create_paper_status
\* create_paper_status without its test of the current status
CreatePaperStatusCheckAnyStatus(user, snap) ==
    IF user.sub <= 0 THEN << 401, "Unauthenticated" >>
    ELSE IF snap = <<>> THEN << 404, "NotFound" >>
    ELSE IF user.sub # snap[1].owner_id THEN << 403, "Forbidden" >>
    ELSE << 200, OK >>

CreatePaperStatusCheck(user, snap) ==
    IF user.sub <= 0 THEN << 401, "Unauthenticated" >>
    ELSE IF snap = <<>> THEN << 404, "NotFound" >>
    ELSE IF snap[1].status # "Uploaded" THEN << 400, "NotUploaded" >>
    ELSE IF user.sub # snap[1].owner_id THEN << 403, "Forbidden" >>
    ELSE << 200, OK >>

\* a SET list that also resets the size
StatusSetZeroSize(user, status, now) ==
    [status |-> status, size |-> 0, operated_by |-> Some(OperatorName(user)),
     operated_time |-> Some(now), updated_at |-> now]

\* the SET list shared by create_paper_status and update_paper_status
StatusSet(user, status, now) ==
    [status |-> status, operated_by |-> Some(OperatorName(user)),
     operated_time |-> Some(now), updated_at |-> now]

\* the history row of the two status handlers: version, oss_key and size are
\* the values the handler read at its start
StatusHistory(op, user, paper_id, snap, size, status, now) ==
    [paper_id |-> paper_id, version |-> snap[1].latest_version, size |-> size,
     status |-> status, detail |-> Null, oss_key |-> snap[1].oss_key,
     operated_by |-> Some(OperatorName(user)), operated_time |-> Some(now),
     created_at |-> now, op |-> op, actor |-> user.sub]

\* size = current_size or 0
SizeOrZero(size) == IF size = 0 THEN 0 ELSE size

CreatePaperStatusBegin(w, U) ==
    /\ pc[w] = "idle"
    /\ \E user \in U.users, paper_id \in 1..U.papers :
        LET snap == SelectPaper(papers, paper_id)
            check == CreatePaperStatusCheck(user, snap)
            request == [op |-> "create_paper_status", user |-> user, paper_id |-> paper_id,
                        arg |-> "PendingReview", snap |-> snap]
        IN  IF check[2] # OK
            THEN Reject(w, request, check[1], check[2])
            ELSE Proceed(w, request @@
                     [set |-> StatusSet(user, "PendingReview", clock),
                      hist |-> StatusHistory("create_paper_status", user, paper_id, snap,
                                             SizeOrZero(snap[1].size), "PendingReview", clock)],
                     U.limit)

\* ---------------------------------------------- update_paper_status
\* status_rules whose teacher column never offers Final
StatusRulesNoFinal(current, role_key) ==
    CASE current = "PendingReview" ->
            IF role_key = "student" THEN {"PendingReview"} ELSE {"Reviewed"}
      [] current = "Reviewed" ->
            IF role_key = "student" THEN {"Updated"} ELSE {"Reviewed"}
      [] current = "Updated" ->
            IF role_key = "student" THEN {"Updated"} ELSE {"NeedsUpdate"}
      [] current = "NeedsUpdate" ->
            IF role_key = "student" THEN {"Updated"} ELSE {"NeedsUpdate"}
      [] current = "Final" -> {}
      [] OTHER -> {}

\* status_rules in which the student may also finalise a paper under review
StatusRulesLoose(current, role_key) ==
    CASE current = "PendingReview" -> {"PendingReview", "Reviewed", "Final"}
      [] current = "Reviewed" ->
            IF role_key = "student" THEN {"Updated"} ELSE {"Reviewed", "Final"}
      [] current = "Updated" ->
            IF role_key = "student" THEN {"Updated"} ELSE {"NeedsUpdate", "Final"}
      [] current = "NeedsUpdate" ->
            IF role_key = "student" THEN {"Updated"} ELSE {"NeedsUpdate", "Final"}
      [] OTHER -> {}

\* status_rules: (current status, role) -> statuses the role may set
StatusRules(current, role_key) ==
    CASE current = "PendingReview" ->
            IF role_key = "student" THEN {"PendingReview"} ELSE {"Reviewed", "Final"}
      [] current = "Reviewed" ->
            IF role_key = "student" THEN {"Updated"} ELSE {"Reviewed", "Final"}
      [] current = "Updated" ->
            IF role_key = "student" THEN {"Updated"} ELSE {"NeedsUpdate", "Final"}
      [] current = "NeedsUpdate" ->
            IF role_key = "student" THEN {"Updated"} ELSE {"NeedsUpdate", "Final"}
      [] current = "Final" -> {}
      [] OTHER -> {}

\* a role_key that looks at the teacher first
RoleKeyTeacherFirst(user, row) == IF user.sub = row.teacher_id THEN "teacher" ELSE "student"

\* a role_key that is "teacher" for every caller
RoleKeyAlwaysTeacher(user, row) == "teacher"

\* role_key = "student" if is_student else "teacher"
RoleKey(user, row) == IF user.sub = row.owner_id THEN "student" ELSE "teacher"

UpdatePaperStatusCheck(user, snap, status) ==
    IF user.sub <= 0 THEN << 401, "Unauthenticated" >>
    ELSE IF snap = <<>> THEN << 404, "NotFound" >>
    ELSE IF snap[1].status = "" THEN << 404, "NotFound" >>
    ELSE IF user.sub # snap[1].owner_id /\ user.sub # snap[1].teacher_id
         THEN << 403, "Forbidden" >>
    ELSE IF snap[1].status = "Final" THEN << 403, "AlreadyFinal" >>
    ELSE IF status \notin StatusRules(snap[1].status, RoleKey(user, snap[1]))
         THEN << 400, "InvalidTransition" >>
    ELSE << 200, OK >>

UpdatePaperStatusBegin(w, U) ==
    /\ pc[w] = "idle"
    /\ \E r \in U.status, paper_id \in 1..U.papers :
        LET snap == SelectPaper(papers, paper_id)
            check == UpdatePaperStatusCheck(r.user, snap, r.status)
            request == [op |-> "update_paper_status", user |-> r.user, paper_id |-> paper_id,
                        arg |-> r.status, snap |-> snap]
        IN  IF check[2] # OK
            THEN Reject(w, request, check[1], check[2])
            ELSE Proceed(w, request @@
                     [set |-> StatusSet(r.user, r.status, clock),
                      hist |-> StatusHistory("update_paper_status", r.user, paper_id, snap,
                                             snap[1].size, r.status, clock)],
                     U.limit)

\* ---------------------------------------------------------- delete_paper
\* "admin" in current_roles or "管理员" in current_roles ("admin_zh" here)
IsAdminLiteral(roles) == "admin" \in roles \/ "admin_zh" \in roles

DeletePaperCheck(user, snap) ==
    IF user.sub = 0 THEN << 401, "Unauthenticated" >>
    ELSE IF snap = <<>> THEN << 404, "NotFound" >>
    ELSE IF snap[1].owner_id # user.sub /\ ~IsAdminLiteral(user.roles)
         THEN << 403, "Forbidden" >>
    ELSE << 200, OK >>

DeletePaperBegin(w, U) ==
    /\ pc[w] = "idle"
    /\ \E user \in U.users, paper_id \in 1..U.papers :
        LET snap == SelectPaper(papers, paper_id)
            check == DeletePaperCheck(user, snap)
            request == [op |-> "delete_paper", user |-> user, paper_id |-> paper_id,
                        arg |-> <<>>, snap |-> snap]
        IN  IF check[2] # OK
            THEN Reject(w, request, check[1], check[2])
            ELSE Proceed(w, request, U.limit)

\* --------------------------------------------------------- list_versions
ListVersionsCheck(user, snap) ==
    IF user.sub <= 0 THEN << 401, "Unauthenticated" >>
    ELSE IF snap = <<>> THEN << 404, "NotFound" >>
    ELSE IF /\ snap[1].owner_id # user.sub
            /\ snap[1].teacher_id # user.sub
            /\ ~IsAdminLiteral(user.roles)
         THEN << 403, "Forbidden" >>
    ELSE << 200, OK >>

\* VersionOut(version, size, created_at, status)
VersionOut(h) ==
    [version |-> h.version, size |-> h.size, created_at |-> h.created_at, status |-> h.status]

\* SELECT ... FROM papers_history WHERE paper_id = %s ORDER BY created_at DESC:
\* every order of the paper's rows in which created_at never increases (rows
\* with equal created_at come in an order the server chooses)
ListVersionsResults(rows, paper_id) ==
    LET mine == SelectSeq(rows, LAMBDA h : h.paper_id = paper_id)
        n == Len(mine)
    IN  {[i \in 1..n |-> VersionOut(mine[f[i]])] :
            f \in {g \in Permutations(1..n) :
                      \A i, j \in 1..n : i < j => mine[g[i]].created_at >= mine[g[j]].created_at}}

\* list_versions writes nothing: its two SELECTs read one snapshot, so the
\* whole handler is one step, taken while no other request is running
ListVersionsBegin(w, U) ==
    /\ pc[w] = "idle"
    /\ \A v \in Workers : pc[v] = "idle"
    /\ \E user \in U.users, paper_id \in 1..U.papers :
        LET snap == SelectPaper(papers, paper_id)
            check == ListVersionsCheck(user, snap)
            request == [op |-> "list_versions", user |-> user, paper_id |-> paper_id,
                        arg |-> <<>>, snap |-> snap]
        IN  IF check[2] # OK
            THEN resp' = Response(request, check[1], check[2], "check", snap)
                         @@ [rows |-> << >>]
            ELSE \/ \E result \in ListVersionsResults(history, paper_id) :
                       resp' = Response(request, 200, OK, "done", snap) @@ [rows |-> result]
                 \/ resp' = Response(request, 500, "PersistenceFailure", "read", snap)
                               @@ [rows |-> << >>]
    /\ UNCHANGED << papers, nextId, history, clock, lock, pc, req, accepted >>

\* ------------------------------------------- teacher review endpoints
\* "teacher" in login_user_roles or "教师" in login_user_roles ("teacher_zh")
IsTeacherLiteral(roles) == "teacher" \in roles \/ "teacher_zh" \in roles

TeacherSubmitReviewCheck(user, snap) ==
    IF user.sub <= 0 THEN << 401, "Unauthenticated" >>
    ELSE IF ~IsTeacherLiteral(user.roles) THEN << 403, "Forbidden" >>
    ELSE IF snap = <<>> THEN << 404, "NotFound" >>
    ELSE IF snap[1].teacher_id # 0 /\ snap[1].teacher_id # user.sub
         THEN << 403, "Forbidden" >>
    ELSE << 200, OK >>

\* the history row of the two review handlers; detail is the payload's
\* review_content (NULL when absent)
ReviewHistory(op, user, paper_id, snap, status, content, now) ==
    [paper_id |-> paper_id, version |-> snap[1].latest_version, size |-> snap[1].size,
     status |-> status, detail |-> content, oss_key |-> snap[1].oss_key,
     operated_by |-> Some(OperatorName(user)), operated_time |-> Some(now),
     created_at |-> now, op |-> op, actor |-> user.sub]

TeacherSubmitReviewBegin(w, U) ==
    /\ pc[w] = "idle"
    /\ \E user \in U.users, paper_id \in 1..U.papers, content \in U.contents :
        LET snap == SelectPaper(papers, paper_id)
            check == TeacherSubmitReviewCheck(user, snap)
            request == [op |-> "teacher_submit_review", user |-> user, paper_id |-> paper_id,
                        arg |-> "Reviewed", snap |-> snap]
        IN  IF check[2] # OK
            THEN Reject(w, request, check[1], check[2])
            ELSE Proceed(w, request @@
                     [set |-> [detail |-> Some(content)] @@ StatusSet(user, "Reviewed", clock),
                      hist |-> ReviewHistory("teacher_submit_review", user, paper_id, snap,
                                             "Reviewed", Some(content), clock)],
                     U.limit)

TeacherUpdateReviewCheck(user, snap, status) ==
    IF user.sub <= 0 THEN << 401, "Unauthenticated" >>
    ELSE IF ~IsTeacherLiteral(user.roles) THEN << 403, "Forbidden" >>
    ELSE IF status \notin ReviewStatuses THEN << 400, "InputValidation" >>
    ELSE IF snap = <<>> THEN << 404, "NotFound" >>
    ELSE IF snap[1].teacher_id # 0 /\ snap[1].teacher_id # user.sub
         THEN << 403, "Forbidden" >>
    ELSE << 200, OK >>

TeacherUpdateReviewBegin(w, U) ==
    /\ pc[w] = "idle"
    /\ \E r \in U.review, paper_id \in 1..U.papers :
        LET snap == SelectPaper(papers, paper_id)
            check == TeacherUpdateReviewCheck(r.user, snap, r.status)
            request == [op |-> "teacher_update_review", user |-> r.user, paper_id |-> paper_id,
                        arg |-> r.status, snap |-> snap]
        IN  IF check[2] # OK
            THEN Reject(w, request, check[1], check[2])
            ELSE Proceed(w, request @@
                     [set |-> IF r.content = Null THEN StatusSet(r.user, r.status, clock)
                              ELSE [detail |-> r.content] @@ StatusSet(r.user, r.status, clock),
                      hist |-> ReviewHistory("teacher_update_review", r.user, paper_id, snap,
                                             r.status, r.content, clock)],
                     U.limit)

\* ---------------------------------------------------- the store's steps
\* the row a committed paper write leaves in papers
WrittenRow(table, r) ==
    IF r.op = "upload_paper" THEN r.insert ELSE SetColumns(table[r.paper_id], r.set)

\* update_paper_status answering 200 without its UPDATE of papers being committed
CommitPapersStatusLost(table, r) ==
    IF r.op = "delete_paper"
    THEN [q \in DOMAIN table \ {r.paper_id} |-> table[q]]
    ELSE IF r.op = "update_paper_status" THEN table
    ELSE [q \in DOMAIN table \cup {r.paper_id} |->
            IF q = r.paper_id THEN WrittenRow(table, r) ELSE table[q]]

\* papers after the transaction of r commits
CommitPapers(table, r) ==
    IF r.op = "delete_paper"
    THEN [q \in DOMAIN table \ {r.paper_id} |-> table[q]]
    ELSE [q \in DOMAIN table \cup {r.paper_id} |->
            IF q = r.paper_id THEN WrittenRow(table, r) ELSE table[q]]

\* papers_history references papers: deleting a paper removes its rows
CascadeDelete(rows, paper_id) == SelectSeq(rows, LAMBDA h : h.paper_id # paper_id)

\* a commit that overwrites the newest history row instead of adding one
CommitHistoryOverwrite(rows, r) ==
    IF r.op = "delete_paper"
    THEN CascadeDelete(rows, r.paper_id)
    ELSE IF rows = << >> THEN << [r.hist EXCEPT !.paper_id = r.paper_id] >>
    ELSE [rows EXCEPT ![Len(rows)] = [r.hist EXCEPT !.paper_id = r.paper_id]]

\* a commit of delete_paper that leaves the paper's history rows in place
CommitHistoryNoCascade(rows, r) ==
    IF r.op = "delete_paper" THEN rows
    ELSE Append(rows, [r.hist EXCEPT !.paper_id = r.paper_id])

\* papers_history after the transaction of r commits
CommitHistory(rows, r) ==
    IF r.op = "delete_paper"
    THEN CascadeDelete(rows, r.paper_id)
    ELSE Append(rows, [r.hist EXCEPT !.paper_id = r.paper_id])

\* a rollback that keeps the paper-row write of the failed transaction
RollbackPapersLeaky(table, r) ==
    IF r.paper_id \in DOMAIN table /\ r.op # "delete_paper"
    THEN CommitPapers(table, r) ELSE table

\* db.rollback(), or the connection closed without commit: the tables stay
RollbackPapers(table, r) == table

RollbackHistory(rows, r) == rows

Release(w) == [p \in PaperIds |-> IF lock[p] = w THEN NoWorker ELSE lock[p]]

\* the first write statement: INSERT INTO papers takes the next id; UPDATE
\* and DELETE wait for the row lock and then hold it until the transaction
\* ends.  A DELETE has no second statement.
ExecWrite(w) ==
    /\ resp = NoResp
    /\ pc[w] = "write"
    /\ IF req[w].op = "upload_paper"
       THEN /\ nextId' = nextId + 1
            /\ req' = [req EXCEPT ![w].paper_id = nextId]
            /\ lock' = lock
       ELSE /\ lock[req[w].paper_id] \in {NoWorker, w}
            /\ lock' = IF req[w].paper_id \in DOMAIN papers
                       THEN [lock EXCEPT ![req[w].paper_id] = w] ELSE lock
            /\ UNCHANGED << nextId, req >>
    /\ pc' = [pc EXCEPT ![w] = IF req[w].op = "delete_paper" THEN "commit" ELSE "insert"]
    /\ UNCHANGED << papers, history, clock, accepted, resp >>

\* the parent row of a new papers_history row is there for this transaction
ParentExists(w) == req[w].op = "upload_paper" \/ req[w].paper_id \in DOMAIN papers

\* INSERT INTO papers_history
ExecInsert(w) ==
    /\ resp = NoResp
    /\ pc[w] = "insert"
    /\ ParentExists(w)
    /\ pc' = [pc EXCEPT ![w] = "commit"]
    /\ UNCHANGED << papers, nextId, history, clock, lock, req, accepted, resp >>

ReviewOps == {"teacher_submit_review", "teacher_update_review"}

\* one more accepted call of endpoint op
Count(n, op) ==
    IF op \in ReviewOps THEN [n EXCEPT !.review = @ + 1] ELSE [n EXCEPT !.lifecycle = @ + 1]

\* db.commit() and the 200 response
Commit(w) ==
    /\ resp = NoResp
    /\ pc[w] = "commit"
    /\ papers' = CommitPapers(papers, req[w])
    /\ history' = CommitHistory(history, req[w])
    /\ accepted' = IF req[w].op = "delete_paper" THEN accepted
                   ELSE [accepted EXCEPT ![req[w].paper_id] = Count(@, req[w].op)]
    /\ resp' = Response(req[w], 200, OK, "done", SelectPaper(papers, req[w].paper_id))
    /\ lock' = Release(w)
    /\ pc' = [pc EXCEPT ![w] = "idle"]
    /\ req' = [req EXCEPT ![w] = NoReq]
    /\ UNCHANGED << nextId, clock >>

\* pymysql.MySQLError in a statement or in the commit: rollback and 500
Fail(w) ==
    /\ resp = NoResp
    /\ pc[w] \in {"write", "insert", "commit"}
    /\ papers' = RollbackPapers(papers, req[w])
    /\ history' = RollbackHistory(history, req[w])
    /\ resp' = Response(req[w], 500, "PersistenceFailure", pc[w],
                        SelectPaper(papers, req[w].paper_id))
    /\ lock' = Release(w)
    /\ pc' = [pc EXCEPT ![w] = "idle"]
    /\ req' = [req EXCEPT ![w] = NoReq]
    /\ UNCHANGED << nextId, clock, accepted >>

\* the caller receives the response
Deliver ==
    /\ resp # NoResp
    /\ resp' = NoResp
    /\ UNCHANGED << papers, nextId, history, clock, lock, pc, req, accepted >>

\* time passes between two requests
Tick ==
    /\ resp = NoResp
    /\ clock < MaxClock
    /\ \E w \in Workers : pc[w] = "idle"
    /\ clock' = clock + 1
    /\ UNCHANGED << papers, nextId, history, lock, pc, req, accepted, resp >>

\* a new request is served by the first idle worker
FreeWorker(w) ==
    /\ resp = NoResp
    /\ pc[w] = "idle"
    /\ \A v \in Workers : pc[v] = "idle" => ~(v = "w1" /\ w = "w2")

Next ==
    \/ \E w \in Workers : FreeWorker(w) /\ UploadPaperBegin(w, Wide)
    \/ \E w \in Workers : FreeWorker(w) /\ UpdatePaperBegin(w, Wide)
    \/ \E w \in Workers : FreeWorker(w) /\ CreatePaperStatusBegin(w, Wide)
    \/ \E w \in Workers : FreeWorker(w) /\ UpdatePaperStatusBegin(w, Wide)
    \/ \E w \in Workers : FreeWorker(w) /\ DeletePaperBegin(w, Wide)
    \/ \E w \in Workers : FreeWorker(w) /\ ListVersionsBegin(w, Wide)
    \/ \E w \in Workers : FreeWorker(w) /\ TeacherSubmitReviewBegin(w, Wide)
    \/ \E w \in Workers : FreeWorker(w) /\ TeacherUpdateReviewBegin(w, Wide)
    \/ \E w \in Workers : ExecWrite(w)
    \/ \E w \in Workers : ExecInsert(w)
    \/ \E w \in Workers : Commit(w)
    \/ \E w \in Workers : Fail(w)
    \/ Deliver
    \/ Tick

Spec == Init /\ [][Next]_vars

NextDeep ==
    \/ \E w \in Workers : FreeWorker(w) /\ UploadPaperBegin(w, Deep)
    \/ \E w \in Workers : FreeWorker(w) /\ UpdatePaperBegin(w, Deep)
    \/ \E w \in Workers : FreeWorker(w) /\ CreatePaperStatusBegin(w, Deep)
    \/ \E w \in Workers : FreeWorker(w) /\ UpdatePaperStatusBegin(w, Deep)
    \/ \E w \in Workers : FreeWorker(w) /\ DeletePaperBegin(w, Deep)
    \/ \E w \in Workers : FreeWorker(w) /\ TeacherSubmitReviewBegin(w, Deep)
    \/ \E w \in Workers : FreeWorker(w) /\ TeacherUpdateReviewBegin(w, Deep)
    \/ \E w \in Workers : ExecWrite(w)
    \/ \E w \in Workers : ExecInsert(w)
    \/ \E w \in Workers : Commit(w)
    \/ \E w \in Workers : Fail(w)
    \/ Deliver

SpecDeep == Init /\ [][NextDeep]_vars

NextMany ==
    \/ \E w \in Workers : FreeWorker(w) /\ UploadPaperBegin(w, Many)
    \/ \E w \in Workers : FreeWorker(w) /\ UpdatePaperBegin(w, Many)
    \/ \E w \in Workers : FreeWorker(w) /\ CreatePaperStatusBegin(w, Many)
    \/ \E w \in Workers : FreeWorker(w) /\ UpdatePaperStatusBegin(w, Many)
    \/ \E w \in Workers : FreeWorker(w) /\ DeletePaperBegin(w, Many)
    \/ \E w \in Workers : FreeWorker(w) /\ TeacherSubmitReviewBegin(w, Many)
    \/ \E w \in Workers : FreeWorker(w) /\ TeacherUpdateReviewBegin(w, Many)
    \/ \E w \in Workers : ExecWrite(w)
    \/ \E w \in Workers : ExecInsert(w)
    \/ \E w \in Workers : Commit(w)
    \/ \E w \in Workers : Fail(w)
    \/ Deliver

SpecMany == Init /\ [][NextMany]_vars

\* ------------------------------------------ the comparison of update_paper
\* the major and minor numbers of the versions compared under SpecCompare
VersionNumbers == {0, 1, 2, 9, 10, 99, 100}

DigitChar(d) == CHOOSE c \in Digits : DigitVal(c) = d

\* the decimal numeral of n
RECURSIVE Decimal(_)
Decimal(n) ==
    IF n < 10 THEN << DigitChar(n) >>
    ELSE Append(Decimal(n \div 10), DigitChar(n % 10))

\* the version string "v<major>.<minor>"
VersionString(major, minor) == << "v" >> \o Decimal(major) \o << "." >> \o Decimal(minor)

\* update_paper parses the stored and the submitted version and compares the
\* tuples: current_version = _parse_version(current_version_str),
\* new_version = _parse_version(version), new_version <= current_version
CompareVersions ==
    /\ resp = NoResp
    /\ \E M1, m1, M2, m2 \in VersionNumbers :
        LET current_version == ParseVersion(VersionString(M1, m1))
            new_version == ParseVersion(VersionString(M2, m2))
        IN  resp' = [op |-> "compare_versions",
                     nums |-> << M1, m1, M2, m2 >>,
                     current |-> VersionString(M1, m1),
                     new |-> VersionString(M2, m2),
                     parsed |-> << current_version, new_version >>,
                     less |-> TupleLess(current_version, new_version),
                     equal |-> current_version = new_version,
                     greater |-> TupleLess(new_version, current_version),
                     rejected |-> TupleLessEq(new_version, current_version)]
    /\ UNCHANGED << papers, nextId, history, clock, lock, pc, req, accepted >>

NextCompare ==
    \/ CompareVersions
    \/ Deliver

SpecCompare == Init /\ [][NextCompare]_vars

\* ------------------------------------------------------------ properties
\* SELECT ... FROM papers_history WHERE paper_id = p, in insertion order
PaperHistory(p) == SelectSeq(history, LAMBDA h : h.paper_id = p)

\* the endpoints CreateReviewStatus and ChangeStatus
StatusOps == {"create_paper_status", "update_paper_status"}

\* C1: of two overlapping ChangeStatus calls on a paper, the one that commits
\* second is validated against the status the first wrote: an accepted
\* ChangeStatus that follows a ChangeStatus in the paper's history has read
\* the status which that earlier call committed.
C1_ChangeStatusSerializable ==
    (/\ resp.op = "update_paper_status"
     /\ resp.code = 200
     /\ Len(PaperHistory(resp.paper_id)) >= 2
     /\ PaperHistory(resp.paper_id)[Len(PaperHistory(resp.paper_id)) - 1].op
            = "update_paper_status")
    => resp.snap[1].status
            = PaperHistory(resp.paper_id)[Len(PaperHistory(resp.paper_id)) - 1].status

\* C2: every accepted UpdatePaper, overlapping or not, leaves a stored version
\* strictly greater in (major, minor) order than the one stored before it.
C2_VersionStrictlyIncreasing ==
    (resp.op = "update_paper" /\ resp.code = 200)
    => LET old == ParseVersion(resp.pre[1].latest_version)
           new == ParseVersion(papers[resp.paper_id].latest_version)
       IN  old[1] < new[1] \/ (old[1] = new[1] /\ old[2] < new[2])

\* C3: an UpdatePaper by the owner with a well-formed file, applied to the row
\* as it stands (no other call in between), with current version cur and new
\* version new: new > cur is accepted and stored; new < cur is rejected with
\* VersionNotIncreasing; new = cur is rejected; a rejection leaves the row.
C3_SequentialVersionOrder ==
    (/\ resp.op = "update_paper"
     /\ resp.stage \in {"check", "done"}
     /\ resp.snap # <<>>
     /\ resp.snap = resp.pre
     /\ resp.user.sub = resp.snap[1].owner_id
     /\ IsDocx(resp.arg.file.filename)
     /\ resp.arg.file.size > 0
     /\ resp.arg.file.size <= MaxUploadSize
     /\ ParseVersion(resp.arg.version) # InvalidVersion
     /\ ParseVersion(resp.snap[1].latest_version) # InvalidVersion)
    => LET cur == ParseVersion(resp.snap[1].latest_version)
           new == ParseVersion(resp.arg.version)
           VersionLess(a, b) == a[1] < b[1] \/ (a[1] = b[1] /\ a[2] < b[2])
       IN  /\ VersionLess(cur, new) =>
                /\ resp.code = 200
                /\ papers[resp.paper_id].latest_version = resp.arg.version
           /\ VersionLess(new, cur) =>
                /\ resp.code = 400
                /\ resp.err = "VersionNotIncreasing"
                /\ papers[resp.paper_id] = resp.pre[1]
           /\ new = cur =>
                /\ resp.code = 400
                /\ resp.err = "VersionNotIncreasing"
                /\ papers[resp.paper_id] = resp.pre[1]

\* the owner offers v1.1 when the paper stands at V1.2 and is refused
C3_Witness ==
    /\ resp.op = "update_paper"
    /\ resp.err = "VersionNotIncreasing"
    /\ resp.arg.version = V11
    /\ resp.snap[1].latest_version = V12Upper
    /\ resp.user.sub = resp.snap[1].owner_id

\* C4: Final is absorbing: no step changes the status of a paper whose
\* status is Final.
C4_FinalAbsorbing ==
    [][\A p \in DOMAIN papers \cap DOMAIN papers' :
            papers[p].status = "Final" => papers'[p].status = "Final"]_vars

\* C5: once a Final row is in a paper's history, every CreateReviewStatus or
\* ChangeStatus call that reads the paper afterwards (it is answered from the
\* row as it stands) fails and leaves the paper row and the history.
C5_NoStatusCallAfterFinal ==
    [][(/\ resp = NoResp
        /\ resp' # NoResp
        /\ resp'.op \in StatusOps
        /\ resp'.snap # <<>>
        /\ resp'.snap = SelectPaper(papers, resp'.paper_id)
        /\ \E i \in 1..Len(PaperHistory(resp'.paper_id)) :
                PaperHistory(resp'.paper_id)[i].status = "Final")
       => (resp'.code # 200 /\ papers' = papers /\ history' = history)]_vars

\* C6: a ChangeStatus by an authenticated actor on an existing paper, not cut
\* short by a persistence failure, succeeds exactly when the actor is the
\* paper's owner or teacher and (status the call read, actor's role, target) is
\* in the transition table (current status, role, target) below, the owner
\* acting as student; on success the stored status is the target; otherwise
\* the call is refused as InvalidTransition (400) or Forbidden (403) and the
\* paper row is unchanged.
C6_ChangeStatusTransitionTable ==
    (/\ resp.op = "update_paper_status"
     /\ resp.stage \in {"check", "done"}
     /\ resp.user.sub > 0
     /\ resp.snap # <<>>)
    => LET row == resp.snap[1]
           isOwner == resp.user.sub = row.owner_id
           isTeacher == resp.user.sub = row.teacher_id
           role == IF isOwner THEN "student" ELSE "teacher"
           TransitionTable ==
               {<< "PendingReview", "student", "PendingReview" >>,
                << "Reviewed", "student", "Updated" >>,
                << "Updated", "student", "Updated" >>,
                << "NeedsUpdate", "student", "Updated" >>,
                << "PendingReview", "teacher", "Reviewed" >>,
                << "PendingReview", "teacher", "Final" >>,
                << "Reviewed", "teacher", "Reviewed" >>,
                << "Reviewed", "teacher", "Final" >>,
                << "Updated", "teacher", "NeedsUpdate" >>,
                << "Updated", "teacher", "Final" >>,
                << "NeedsUpdate", "teacher", "NeedsUpdate" >>,
                << "NeedsUpdate", "teacher", "Final" >>}
           allowed == /\ isOwner \/ isTeacher
                      /\ << row.status, role, resp.arg >> \in TransitionTable
       IN  /\ resp.code = 200 <=> allowed
           /\ resp.code = 200 => papers[resp.paper_id].status = resp.arg
           /\ resp.code # 200 =>
                /\ resp.code \in {400, 403}
                /\ resp.code = 400 => resp.err = "InvalidTransition"
                /\ ~(isOwner \/ isTeacher) => resp.err = "Forbidden"
                /\ papers[resp.paper_id] = resp.pre[1]

\* the teacher moves a paper from PendingReview to Final
C6_Witness ==
    /\ resp.op = "update_paper_status"
    /\ resp.code = 200
    /\ resp.user = Teacher2
    /\ resp.snap[1].status = "PendingReview"
    /\ resp.arg = "Final"
    /\ papers[resp.paper_id].status = "Final"

\* C7: the history rows of every paper are as many as the accepted mutations
\* on it, which are its accepted CreatePaper, UpdatePaper, CreateReviewStatus
\* and ChangeStatus calls: one row per accepted call, none per rejected call.
C7_HistoryCountsLifecycle ==
    \A p \in DOMAIN papers : Len(PaperHistory(p)) = accepted[p].lifecycle

\* the endpoints CreatePaper, UpdatePaper, CreateReviewStatus, ChangeStatus
LifecycleOps == {"upload_paper", "update_paper", "create_paper_status", "update_paper_status"}

\* C8: the history row an accepted mutation writes equals the paper row right
\* after the mutation on version, size, status, detail, storage key,
\* operated_by and operated_time.
C8_HistoryMirrorsPaper ==
    (resp.op \in LifecycleOps /\ resp.code = 200)
    => LET rows == PaperHistory(resp.paper_id)
           h == rows[Len(rows)]
           row == papers[resp.paper_id]
       IN  /\ h.version = row.latest_version
           /\ h.size = row.size
           /\ h.status = row.status
           /\ h.detail = row.detail
           /\ h.oss_key = row.oss_key
           /\ h.operated_by = row.operated_by
           /\ h.operated_time = row.operated_time

\* C9: the history row that an UpdatePaper, a CreateReviewStatus or a
\* ChangeStatus commits, overlapping or not, carries the version, size and
\* storage key of the paper row at that commit, and being the newest row it
\* agrees with the paper row on the status too.
C9_HistoryConsistentUnderOverlap ==
    (resp.op \in {"update_paper"} \cup StatusOps /\ resp.code = 200)
    => LET rows == PaperHistory(resp.paper_id)
           h == rows[Len(rows)]
           row == papers[resp.paper_id]
       IN  /\ h.version = row.latest_version
           /\ h.size = row.size
           /\ h.oss_key = row.oss_key
           /\ h.status = row.status

\* C10: every write is all-or-nothing.  In every step and for every paper, a
\* changed or new paper row comes with exactly one new history row of that
\* paper, and a new history row comes with the paper row written by the same
\* operation (its status and its time of writing); a call that ends with a
\* persistence failure, wherever it struck, leaves papers and history.
C10_AllOrNothing ==
    [][/\ (resp = NoResp /\ resp' # NoResp /\ resp'.code = 500)
            => (papers' = papers /\ history' = history)
       /\ \A p \in DOMAIN papers' :
            LET before == PaperHistory(p)
                after == PaperHistory(p)'
            IN  /\ SelectPaper(papers', p) # SelectPaper(papers, p)
                    => Len(after) = Len(before) + 1
                /\ after # before =>
                    /\ Len(after) = Len(before) + 1
                    /\ papers'[p].status = after[Len(after)].status
                    /\ papers'[p].updated_at = after[Len(after)].created_at]_vars

\* a persistence failure struck an UpdatePaper after its paper-row write and
\* before its history insert
C10_Witness ==
    /\ resp.op = "update_paper"
    /\ resp.code = 500
    /\ resp.stage = "insert"
    /\ papers[resp.paper_id] = resp.pre[1]

\* C11: history is append-only: in every step, for every paper that exists
\* before and after it, the history rows the paper had are still there, in
\* place and with every field as it was; rows are only added after them.
C11_HistoryAppendOnly ==
    [][\A p \in DOMAIN papers \cap DOMAIN papers' :
            /\ Len(PaperHistory(p)') >= Len(PaperHistory(p))
            /\ SubSeq(PaperHistory(p)', 1, Len(PaperHistory(p))) = PaperHistory(p)]_vars

\* paper 1 has just been deleted; paper 2 keeps its upload row and the row of
\* a later mutation
C11_Witness ==
    /\ resp.op = "delete_paper"
    /\ resp.code = 200
    /\ resp.paper_id = 1
    /\ DOMAIN papers = {2}
    /\ Len(PaperHistory(2)) = 2
    /\ PaperHistory(2)[1].op = "upload_paper"
    /\ PaperHistory(2)[1].status = "Uploaded"
    /\ papers[2].status # "Uploaded"

\* C12: in every reachable state the status of every paper row and of every
\* history row is one of Uploaded, PendingReview, Reviewed, Updated,
\* NeedsUpdate, Final, whichever endpoint wrote it.
C12_StatusInEnumeration ==
    /\ \A p \in DOMAIN papers : papers[p].status \in Statuses
    /\ \A i \in 1..Len(history) : history[i].status \in Statuses

\* C13: a paper's status is written, and its history appended to, only by the
\* lifecycle state machine: every accepted call that writes either is
\* CreatePaper, CreateReviewStatus by the owner from Uploaded, UpdatePaper by
\* the owner, or a ChangeStatus that the transition table allows for the
\* actor's role from the status the paper has; no other endpoint does.
C13_OnlyLifecycleWrites ==
    (resp.op \in LifecycleOps \cup ReviewOps /\ resp.code = 200)
    => \/ resp.op = "upload_paper"
       \/ /\ resp.op = "create_paper_status"
          /\ resp.user.sub = resp.pre[1].owner_id
          /\ resp.pre[1].status = "Uploaded"
       \/ /\ resp.op = "update_paper"
          /\ resp.user.sub = resp.pre[1].owner_id
       \/ /\ resp.op = "update_paper_status"
          /\ LET row == resp.pre[1]
                 role == IF resp.user.sub = row.owner_id THEN "student" ELSE "teacher"
             IN  /\ resp.user.sub \in {row.owner_id, row.teacher_id}
                 /\ << row.status, role, resp.arg >> \in
                        {<< "PendingReview", "student", "PendingReview" >>,
                         << "Reviewed", "student", "Updated" >>,
                         << "Updated", "student", "Updated" >>,
                         << "NeedsUpdate", "student", "Updated" >>,
                         << "PendingReview", "teacher", "Reviewed" >>,
                         << "PendingReview", "teacher", "Final" >>,
                         << "Reviewed", "teacher", "Reviewed" >>,
                         << "Reviewed", "teacher", "Final" >>,
                         << "Updated", "teacher", "NeedsUpdate" >>,
                         << "Updated", "teacher", "Final" >>,
                         << "NeedsUpdate", "teacher", "NeedsUpdate" >>,
                         << "NeedsUpdate", "teacher", "Final" >>}

\* C14: a CreateReviewStatus by an authenticated actor on an existing paper,
\* not cut short by a persistence failure, succeeds exactly when the actor is
\* the owner and the status the call read is Uploaded; on success the stored
\* status is PendingReview; a second call by the owner right after a
\* successful one is refused as a conflict (400, the status is not Uploaded)
\* and leaves the paper row.
C14_CreateReviewStatusFromUploaded ==
    (/\ resp.op = "create_paper_status"
     /\ resp.stage \in {"check", "done"}
     /\ resp.user.sub > 0
     /\ resp.snap # <<>>)
    => LET row == resp.snap[1]
           rows == PaperHistory(resp.paper_id)
       IN  /\ resp.code = 200 <=>
                (resp.user.sub = row.owner_id /\ row.status = "Uploaded")
           /\ resp.code = 200 => papers[resp.paper_id].status = "PendingReview"
           /\ (/\ resp.stage = "check"
               /\ resp.user.sub = row.owner_id
               /\ rows # << >>
               /\ rows[Len(rows)].op = "create_paper_status")
              => /\ resp.code = 400
                 /\ resp.err = "NotUploaded"
                 /\ papers[resp.paper_id] = resp.pre[1]

\* the owner repeats CreateReviewStatus right after it succeeded
C14_Witness ==
    /\ resp.op = "create_paper_status"
    /\ resp.code = 400
    /\ resp.user = Student1
    /\ resp.snap[1].status = "PendingReview"
    /\ PaperHistory(resp.paper_id)[Len(PaperHistory(resp.paper_id))].op
            = "create_paper_status"

\* C15: over the life of a paper CreateReviewStatus is accepted at most once:
\* no paper ever has two history rows written by CreateReviewStatus, also
\* when two such calls overlap.
C15_CreateReviewStatusOnce ==
    \A p \in DOMAIN papers :
        Cardinality({i \in 1..Len(PaperHistory(p)) :
                        PaperHistory(p)[i].op = "create_paper_status"}) <= 1

\* C16: an accepted CreatePaper adds one paper, owned by the caller, with
\* version v1.0 and status Uploaded, and exactly one history row for it, which
\* records v1.0 and Uploaded too; the row and the history of every other
\* paper stay as they were.
C16_CreatePaper ==
    [][(/\ resp = NoResp
        /\ resp' # NoResp
        /\ resp'.op = "upload_paper"
        /\ resp'.code = 200)
       => \E p \in PaperIds :
            /\ p = resp'.paper_id
            /\ p \notin DOMAIN papers
            /\ DOMAIN papers' = DOMAIN papers \cup {p}
            /\ papers'[p].owner_id = resp'.user.sub
            /\ papers'[p].latest_version = V10
            /\ papers'[p].status = "Uploaded"
            /\ Len(PaperHistory(p)') = 1
            /\ PaperHistory(p)'[1].version = V10
            /\ PaperHistory(p)'[1].status = "Uploaded"
            /\ \A q \in DOMAIN papers :
                    papers'[q] = papers[q] /\ PaperHistory(q)' = PaperHistory(q)]_vars

\* a second paper has just been created beside one that already has two
\* history rows
C16_Witness ==
    /\ resp.op = "upload_paper"
    /\ resp.code = 200
    /\ resp.paper_id = 2
    /\ DOMAIN papers = {1, 2}
    /\ Len(PaperHistory(1)) = 2
    /\ Len(PaperHistory(2)) = 1

\* C17: an UpdatePaper on an existing paper by an actor who is not its owner
\* (its teacher included) is rejected before any write and leaves papers and
\* history as they are; with a well-formed file (.docx, not empty, within the
\* size limit) the answer is Forbidden (403), whatever the submitted version.
C17_UpdateByNonOwnerForbidden ==
    [][(/\ resp = NoResp
        /\ resp' # NoResp
        /\ resp'.op = "update_paper"
        /\ resp'.snap # <<>>
        /\ resp'.user.sub # resp'.snap[1].owner_id)
       => /\ resp'.code \in {400, 403}
          /\ resp'.stage = "check"
          /\ papers' = papers
          /\ history' = history
          /\ (/\ IsDocx(resp'.arg.file.filename)
              /\ resp'.arg.file.size > 0
              /\ resp'.arg.file.size <= MaxUploadSize)
             => (resp'.code = 403 /\ resp'.err = "Forbidden")]_vars

\* the paper's teacher offers a malformed version and is answered Forbidden
C17_Witness ==
    /\ resp.op = "update_paper"
    /\ resp.user = Teacher2
    /\ resp.snap # <<>>
    /\ resp.snap[1].teacher_id = 2
    /\ resp.snap[1].owner_id = 1
    /\ resp.arg.version = VBad
    /\ resp.code = 403
    /\ resp.err = "Forbidden"

\* the role strings that name the admin role: the literal, its case variant,
\* its plural and its Chinese synonym
AdminRoleStrings == {"admin", "Admin", "admins", "admin_zh"}

\* C18: a DeletePaper by an authenticated actor on an existing paper succeeds
\* exactly when the actor is the paper's owner or holds an admin role (being
\* its teacher is not enough); after a success neither the paper row nor any
\* history row of the paper exists; a rejected DeletePaper removes nothing.
C18_DeleteOwnerOrAdmin ==
    [][(/\ resp = NoResp
        /\ resp' # NoResp
        /\ resp'.op = "delete_paper"
        /\ resp'.user.sub > 0
        /\ resp'.snap # <<>>)
       => /\ resp'.stage \in {"check", "done"}
             => (resp'.code = 200
                 <=> \/ resp'.snap[1].owner_id = resp'.user.sub
                     \/ resp'.user.roles \cap AdminRoleStrings # {})
          /\ resp'.code = 200
             => \E p \in PaperIds :
                    /\ p = resp'.paper_id
                    /\ p \notin DOMAIN papers'
                    /\ PaperHistory(p)' = << >>
          /\ resp'.code # 200 => (papers' = papers /\ history' = history)]_vars

\* the same statement for callers whose admin role is spelt "admin" or "管理员"
C18_DeleteOwnerOrLiteralAdmin ==
    [][(/\ resp = NoResp
        /\ resp' # NoResp
        /\ resp'.op = "delete_paper"
        /\ resp'.user.sub > 0
        /\ resp'.snap # <<>>)
       => /\ resp'.stage \in {"check", "done"}
             => (resp'.code = 200
                 <=> \/ resp'.snap[1].owner_id = resp'.user.sub
                     \/ IsAdminLiteral(resp'.user.roles))
          /\ resp'.code = 200
             => \E p \in PaperIds :
                    /\ p = resp'.paper_id
                    /\ p \notin DOMAIN papers'
                    /\ PaperHistory(p)' = << >>
          /\ resp'.code # 200 => (papers' = papers /\ history' = history)]_vars

\* C19: no requested mutation is silently dropped.  Every call ends in one
\* of two ways: it is answered 200 and its change is committed (for the
\* writers of a paper's status or version: the paper row existed before, or
\* is the new row of an upload, carries the requested value afterwards, and
\* one history row of this call was added; for a delete: the row is gone), or
\* it is answered with an error status and message and both tables are as
\* they were.  (list_versions requests no mutation.)
C19_NoSilentDrop ==
    [][(resp = NoResp /\ resp' # NoResp /\ resp'.op # "list_versions")
       => \/ /\ resp'.code = 200
             /\ resp'.op # "delete_paper"
             /\ \E p \in PaperIds :
                    /\ p = resp'.paper_id
                    /\ (resp'.op = "upload_paper") = (p \notin DOMAIN papers)
                    /\ p \in DOMAIN papers'
                    /\ Len(history') = Len(history) + 1
                    /\ history'[Len(history')].paper_id = p
                    /\ history'[Len(history')].op = resp'.op
                    /\ history'[Len(history')].actor = resp'.user.sub
                    /\ history'[Len(history')].status = papers'[p].status
                    /\ resp'.op = "upload_paper"
                       => /\ papers'[p].owner_id = resp'.arg[1]
                          /\ papers'[p].teacher_id = resp'.arg[2]
                          /\ papers'[p].status = "Uploaded"
                    /\ resp'.op = "update_paper"
                       => /\ papers'[p].latest_version = resp'.arg.version
                          /\ papers'[p].size = resp'.arg.file.size
                          /\ papers'[p].status = "Updated"
                          /\ history'[Len(history')].version = resp'.arg.version
                    /\ resp'.op \in {"create_paper_status", "update_paper_status"} \cup ReviewOps
                       => papers'[p].status = resp'.arg
          \/ /\ resp'.code = 200
             /\ resp'.op = "delete_paper"
             /\ \E p \in PaperIds : p = resp'.paper_id /\ p \notin DOMAIN papers'
          \/ /\ resp'.code \in {400, 401, 403, 404, 500}
             /\ resp'.err # OK
             /\ papers' = papers
             /\ history' = history]_vars

\* a status change that read the paper before another request deleted it: its
\* UPDATE finds no row, its history INSERT fails, and the caller is told so
C19_Witness ==
    /\ resp.op = "update_paper_status"
    /\ resp.snap # <<>>
    /\ resp.paper_id \notin DOMAIN papers
    /\ resp.stage = "insert"
    /\ resp.code = 500
    /\ resp.err = "PersistenceFailure"

\* C20: every operation called with actor_id = 0 is answered Unauthenticated
\* (401), whatever the paper's owner or the caller's roles are, and changes
\* neither table.
C20_UnauthenticatedFirst ==
    [][(resp = NoResp /\ resp' # NoResp /\ resp'.user.sub = 0)
       => /\ resp'.code = 401
          /\ resp'.err = "Unauthenticated"
          /\ papers' = papers
          /\ history' = history]_vars

\* the handlers that do test the caller's id first, and that such a call
\* changes nothing in any handler
C20_UnauthenticatedWhereChecked ==
    [][(resp = NoResp /\ resp' # NoResp /\ resp'.user.sub = 0)
       => /\ resp'.op \notin {"upload_paper", "update_paper"}
             => (resp'.code = 401 /\ resp'.err = "Unauthenticated")
          /\ resp'.code # 200
          /\ papers' = papers
          /\ history' = history]_vars

\* C21: a ChangeStatus or CreateReviewStatus by an authenticated actor that
\* finds the paper at Final is rejected with the AlreadyFinal conflict,
\* whether the actor is the owner, the teacher or neither.  (The conflict of
\* create_paper_status is its 400 for a status other than Uploaded.)
C21_FinalRejectsAsAlreadyFinal ==
    (/\ resp.op \in StatusOps
     /\ resp.user.sub > 0
     /\ resp.snap # << >>
     /\ resp.snap[1].status = "Final")
    => /\ resp.code # 200
       /\ resp.stage = "check"
       /\ resp.op = "create_paper_status" => (resp.code = 400 /\ resp.err = "NotUploaded")
       /\ resp.op = "update_paper_status" => resp.err = "AlreadyFinal"

\* what the two handlers do answer on a Final paper: a refusal in every case,
\* AlreadyFinal for the owner and the teacher, Forbidden for anyone else
C21_FinalRejects ==
    (/\ resp.op \in StatusOps
     /\ resp.user.sub > 0
     /\ resp.snap # << >>
     /\ resp.snap[1].status = "Final")
    => /\ resp.code # 200
       /\ resp.stage = "check"
       /\ resp.op = "create_paper_status" => (resp.code = 400 /\ resp.err = "NotUploaded")
       /\ resp.op = "update_paper_status"
          => IF resp.user.sub \in {resp.snap[1].owner_id, resp.snap[1].teacher_id}
             THEN resp.code = 403 /\ resp.err = "AlreadyFinal"
             ELSE resp.code = 403 /\ resp.err = "Forbidden"

\* C22: a ListHistory by an authenticated actor on an existing paper is
\* accepted exactly for the paper's owner, its teacher and an admin (a caller
\* with the role "admin" or "管理员"); its result holds every history row of the
\* paper, created_at never increasing, the row of the most recently accepted
\* mutation first, and is not empty.
C22_ListHistoryNewestFirst ==
    (/\ resp.op = "list_versions"
     /\ resp.user.sub > 0
     /\ resp.snap # << >>
     /\ resp.stage \in {"check", "done"})
    => /\ resp.code = 200
          <=> \/ resp.user.sub \in {resp.snap[1].owner_id, resp.snap[1].teacher_id}
              \/ IsAdminLiteral(resp.user.roles)
       /\ resp.code = 200
          => LET mine == PaperHistory(resp.paper_id)
             IN  /\ Len(resp.rows) = Len(mine)
                 /\ Len(resp.rows) >= 1
                 /\ \A i, j \in 1..Len(resp.rows) :
                        i < j => resp.rows[i].created_at >= resp.rows[j].created_at
                 /\ resp.rows[1] = VersionOut(mine[Len(mine)])

\* what list_versions does guarantee: accepted exactly for the owner, the
\* teacher and an admin; all rows of the paper, created_at never increasing,
\* not empty
C22_ListHistorySorted ==
    (/\ resp.op = "list_versions"
     /\ resp.user.sub > 0
     /\ resp.snap # << >>
     /\ resp.stage \in {"check", "done"})
    => /\ resp.code = 200
          <=> \/ resp.user.sub \in {resp.snap[1].owner_id, resp.snap[1].teacher_id}
              \/ IsAdminLiteral(resp.user.roles)
       /\ resp.code = 200
          => LET mine == PaperHistory(resp.paper_id)
             IN  /\ Len(resp.rows) = Len(mine)
                 /\ Len(resp.rows) >= 1
                 /\ \A i, j \in 1..Len(resp.rows) :
                        i < j => resp.rows[i].created_at >= resp.rows[j].created_at
                 /\ \A i \in 1..Len(mine) :
                        Cardinality({k \in 1..Len(mine) : VersionOut(mine[k]) = VersionOut(mine[i])})
                        = Cardinality({k \in 1..Len(mine) : resp.rows[k] = VersionOut(mine[i])})

\* the owner lists a paper whose two rows carry the same created_at and gets
\* the older row first
C22_OlderRowFirst ==
    /\ resp.op = "list_versions"
    /\ resp.code = 200
    /\ resp.user = Student1
    /\ Len(resp.rows) = 2
    /\ resp.rows[1].status = "Uploaded"
    /\ resp.rows[2].status = "PendingReview"

\* C23: for DeletePaper and ListHistory a caller one of whose role strings is
\* the literal "admin", a case variant, a plural or the Chinese synonym of it
\* is treated as admin: on an existing paper such an authenticated caller is
\* never refused as Forbidden.
C23_AdminRoleNormalized ==
    (/\ resp.op \in {"delete_paper", "list_versions"}
     /\ resp.user.sub > 0
     /\ resp.snap # << >>
     /\ resp.user.roles \cap AdminRoleStrings # {})
    => resp.code # 403

\* C24: the comparison update_paper uses is the numeric order on (major,
\* minor): for the versions vM1.m1 (stored) and vM2.m2 (submitted), stored is
\* less than submitted iff M1 < M2, or M1 = M2 and m1 < m2; exactly one of
\* less, equal, greater holds; the submitted version is refused iff it is not
\* greater.  So v1.10 is greater than v1.9 and v2.0 is greater than v1.99.
C24_NumericTupleOrder ==
    resp.op = "compare_versions"
    => LET M1 == resp.nums[1]
           m1 == resp.nums[2]
           M2 == resp.nums[3]
           m2 == resp.nums[4]
       IN  /\ resp.parsed = << << M1, m1 >>, << M2, m2 >> >>
           /\ resp.less <=> (M1 < M2 \/ (M1 = M2 /\ m1 < m2))
           /\ resp.equal <=> (M1 = M2 /\ m1 = m2)
           /\ resp.greater <=> (M1 > M2 \/ (M1 = M2 /\ m1 > m2))
           /\ Cardinality({k \in {"less", "equal", "greater"} : resp[k]}) = 1
           /\ resp.rejected <=> ~resp.less

\* v1.10 submitted over v1.9 is found greater and is not refused
C24_Witness ==
    /\ resp.op = "compare_versions"
    /\ resp.current = << "v", "1", ".", "9" >>
    /\ resp.new = << "v", "1", ".", "1", "0" >>
    /\ resp.less
    /\ ~resp.rejected

C26_StatusCallsTouchStatusOnly ==
    [][/\ \A p \in DOMAIN papers \cap DOMAIN papers' :
            /\ papers'[p].owner_id = papers[p].owner_id
            /\ papers'[p].teacher_id = papers[p].teacher_id
       /\ (resp = NoResp /\ resp' # NoResp /\ resp'.op \in StatusOps /\ resp'.code = 200)
          => \E p \in PaperIds :
                /\ p = resp'.paper_id
                /\ p \in DOMAIN papers \cap DOMAIN papers'
                /\ \A c \in DOMAIN papers[p] \ {"status", "operated_by", "operated_time", "updated_at"} :
                        papers'[p][c] = papers[p][c]
                /\ \A q \in DOMAIN papers \ {p} : q \in DOMAIN papers' /\ papers'[q] = papers[q]]_vars

\* the teacher's ChangeStatus is accepted on a paper already updated to v1.1
C26_Witness ==
    /\ resp.op = "update_paper_status"
    /\ resp.code = 200
    /\ resp.user = Teacher2
    /\ resp.paper_id \in DOMAIN papers
    /\ papers[resp.paper_id].latest_version = V11
    /\ papers[resp.paper_id].size = NewFile.size
    /\ papers[resp.paper_id].status = resp.arg
    /\ papers[resp.paper_id].owner_id = 1
    /\ papers[resp.paper_id].teacher_id = 2

\* the statuses of the teacher column of the transition table
TeacherStatuses == {"Reviewed", "NeedsUpdate", "Final"}

\* C27: only the paper's teacher moves a paper to Reviewed, NeedsUpdate or
\* Final: every history row with one of these statuses was written by a call
\* of the paper's teacher, and an accepted call of the owner on an existing
\* paper, when the owner is not the teacher, leaves the paper at PendingReview
\* or Updated.
C27_TeacherStatusesByTeacher ==
    /\ \A i \in 1..Len(history) :
          history[i].status \in TeacherStatuses
          => /\ history[i].paper_id \in DOMAIN papers
             /\ history[i].actor = papers[history[i].paper_id].teacher_id
    /\ (/\ resp.op \in (LifecycleOps \cup ReviewOps) \ {"upload_paper"}
        /\ resp.code = 200
        /\ resp.paper_id \in DOMAIN papers
        /\ resp.user.sub = papers[resp.paper_id].owner_id
        /\ resp.user.sub # papers[resp.paper_id].teacher_id)
       => papers[resp.paper_id].status \in {"PendingReview", "Updated"}

\* the history holds a teacher's row, and the owner's next call has moved the
\* paper on to Updated
C27_Witness ==
    /\ resp.op = "update_paper_status"
    /\ resp.code = 200
    /\ resp.user = Student1
    /\ resp.paper_id \in DOMAIN papers
    /\ papers[resp.paper_id].teacher_id = 2
    /\ papers[resp.paper_id].status = "Updated"
    /\ \E i \in 1..Len(history) :
          /\ history[i].status \in TeacherStatuses
          /\ history[i].actor = 2

\* no step sets the status of a paper that has left Uploaded back to Uploaded
NoReturnToUploaded ==
    \A p \in DOMAIN papers \cap DOMAIN papers' :
        papers[p].status # "Uploaded" => papers'[p].status # "Uploaded"

\* the history of paper p has an update_paper row written right after the
\* upload row, and a later row of create_paper_status or at PendingReview
PendingReviewAfterFirstUpdate(p) ==
    LET h == PaperHistory(p)
    IN  \E i, j \in 1..Len(h) :
            /\ 1 < i
            /\ i < j
            /\ h[i].op = "update_paper"
            /\ h[i - 1].status = "Uploaded"
            /\ (h[j].op = "create_paper_status" \/ h[j].status = "PendingReview")

\* C28: Uploaded is never re-entered, and a paper whose first mutation after
\* the upload was an accepted UpdatePaper has no later accepted
\* CreateReviewStatus and never reaches PendingReview.
C28_UploadedNeverReentered ==
    [][/\ NoReturnToUploaded
       /\ \A p \in DOMAIN papers' : ~PendingReviewAfterFirstUpdate(p)']_vars

\* the part that holds whatever the interleaving: no return to Uploaded
C28_NoReturnToUploaded == [][NoReturnToUploaded]_vars

\* a create_paper_status that finds the paper at Updated is refused
C28_LaterCreateRefused ==
    (/\ resp.op = "create_paper_status"
     /\ resp.snap # << >>
     /\ resp.snap[1].status # "Uploaded"
     /\ resp.user.sub > 0)
    => (resp.code = 400 /\ resp.stage = "check")

\* the owner and the teacher of a paper row as callers
OwnerOf(row) == [sub |-> row.owner_id, username |-> "", roles |-> {"student"}]

TeacherOf(row) == [sub |-> row.teacher_id, username |-> "", roles |-> {"teacher"}]

\* a version greater than the one stored in row
GreaterVersion(row) == VersionString(ParseVersion(row.latest_version)[1] + 1, 0)

\* the rows one accepted call of the owner or the teacher can leave in place
\* of row, each decided by the handler's checks: update_paper_status with any
\* target,
AfterStatusCall(row) ==
    {[row EXCEPT !.status = r[2]] : r \in
        {q \in {OwnerOf(row), TeacherOf(row)} \X Statuses :
            UpdatePaperStatusCheck(q[1], << row >>, q[2])[2] = OK}}

\* create_paper_status,
AfterCreateCall(row) ==
    IF CreatePaperStatusCheck(OwnerOf(row), << row >>)[2] = OK
    THEN {[row EXCEPT !.status = "PendingReview"]} ELSE {}

\* and update_paper with a greater version
AfterUpdateCall(row) ==
    IF UpdatePaperCheck(OwnerOf(row), << row >>, NewFile.filename, NewFile.size,
                        GreaterVersion(row))[2] = OK
    THEN {[row EXCEPT !.status = "Updated", !.latest_version = GreaterVersion(row)]}
    ELSE {}

\* some sequence of at most n accepted calls takes row to Final
RECURSIVE CanFinalise(_, _)
CanFinalise(row, n) ==
    \/ row.status = "Final"
    \/ n > 0 /\ \E next \in AfterStatusCall(row) : CanFinalise(next, n - 1)
    \/ n > 0 /\ \E next \in AfterCreateCall(row) : CanFinalise(next, n - 1)
    \/ n > 0 /\ \E next \in AfterUpdateCall(row) : CanFinalise(next, n - 1)

\* C29: for a paper whose owner and teacher are different users no reachable
\* status is a dead end: from every reachable paper row some sequence of
\* accepted calls of the owner and the teacher ends with status Final.
C29_FinalReachable ==
    \A p \in DOMAIN papers :
        papers[p].owner_id # papers[p].teacher_id => CanFinalise(papers[p], MaxSteps)

\* a paper at the status 已通过, which the transition table does not know: no
\* single call finalises it, an update followed by the teacher's Final does
C29_Witness ==
    \E p \in DOMAIN papers :
        /\ papers[p].owner_id # papers[p].teacher_id
        /\ papers[p].status = "Passed"
        /\ ~CanFinalise(papers[p], 1)
        /\ CanFinalise(papers[p], 2)

\* the student column of the transition table
StudentColumn(current) ==
    CASE current = "PendingReview" -> {"PendingReview"}
      [] current \in {"Reviewed", "Updated", "NeedsUpdate"} -> {"Updated"}
      [] OTHER -> {}

\* C30: for an actor who is both the owner and the teacher of the paper,
\* ChangeStatus applies the student column only: the call is accepted exactly
\* when the target is in the student column for the status read, so the actor
\* sets PendingReview or Updated at most, never Reviewed, NeedsUpdate or Final.
C30_OwnerTeacherIsStudent ==
    (/\ resp.op = "update_paper_status"
     /\ resp.snap # << >>
     /\ resp.user.sub > 0
     /\ resp.user.sub = resp.snap[1].owner_id
     /\ resp.user.sub = resp.snap[1].teacher_id
     /\ resp.stage \in {"check", "done"})
    => /\ resp.code = 200 <=> resp.arg \in StudentColumn(resp.snap[1].status)
       /\ resp.code = 200 => resp.arg \in {"PendingReview", "Updated"}
       /\ resp.arg \in TeacherStatuses => resp.code \in {400, 403}

\* the owner-and-teacher of a paper under review asks for Final, which the
\* teacher column would allow, and is refused
C30_Witness ==
    /\ resp.op = "update_paper_status"
    /\ resp.snap # << >>
    /\ resp.user.sub = resp.snap[1].owner_id
    /\ resp.user.sub = resp.snap[1].teacher_id
    /\ resp.snap[1].status = "PendingReview"
    /\ resp.arg = "Final"
    /\ resp.code = 400
    /\ resp.err = "InvalidTransition"

====
